---- MODULE Spec2Model ----
(***************************************************************************)
(* Model of src/main.py: a command-line wrapper that resolves ~/Documents, *)
(* delegates a download to the yt_dlp library and recovers the path of the *)
(* downloaded file.  The program is sequential; pc is the position of the  *)
(* single thread of control.  The library, argparse and the filesystem are *)
(* the environment: their outcomes are chosen nondeterministically.        *)
(*                                                                         *)
(* Exceptions are limited to subclasses of Exception (DownloadError,       *)
(* OSError, other); BaseException (KeyboardInterrupt) is not modelled, nor *)
(* is a raise from YoutubeDL.__exit__.                                     *)
(***************************************************************************)
EXTENDS Integers, Sequences, FiniteSets

VARIABLES pc, argv, yt_dlp, homeWritable, exitCode, out,
          documents_folder, mkdirCalls, dirCreated,
          output_dir, ydl, expected_filepath_template, error_code,
          fs, downloaded_filepath, downloadCalls, existsChecks, listdirCalls,
          exc, ret, reported

vars == <<pc, argv, yt_dlp, homeWritable, exitCode, out,
          documents_folder, mkdirCalls, dirCreated,
          output_dir, ydl, expected_filepath_template, error_code,
          fs, downloaded_filepath, downloadCalls, existsChecks, listdirCalls,
          exc, ret, reported>>

-----------------------------------------------------------------------------
(* Bounds *)

MaxArgs == 2
MaxFiles == 2
MaxStatus == 2

-----------------------------------------------------------------------------
(* Values *)

None == <<>>
NoDir == ""
NoCode == -1
NoExc == ""

DocumentsPath == "~/Documents"

\* os.path.join(dir, name): a path is the pair of its directory and file name
Join(dir, name) == <<dir, name>>

\* Command-line tokens: a positional word, the help flag, an unknown option
ArgTokens == {"url", "-h", "-x"}

\* Exceptions the library or the OS can raise inside the outer try
ExcKinds == {"DownloadError", "OSError", "Exception"}

\* Class test `isinstance(e, Exception)` of the handler at line 155
IsException(e) == e \in {"DownloadError", "OSError", "Exception"}

\* File names are sequences of characters
Name_a_mp4 == <<"a", ".", "m", "p", "4">>
Name_b_MKV == <<"b", ".", "M", "K", "V">>
Name_c_mp3 == <<"c", ".", "m", "p", "3">>
Name_e_webm == <<"e", ".", "w", "e", "b", "m">>
Name_f_MoV == <<"f", ".", "M", "o", "V">>
Name_g_avi == <<"g", ".", "a", "v", "i">>
Name_h_flv == <<"h", ".", "f", "l", "v">>
Name_mp4 == <<"m", "p", "4">>
Name_downloaded_video ==
    <<"d", "o", "w", "n", "l", "o", "a", "d", "e", "d", "_", "v", "i", "d", "e", "o">>

FileNames == {Name_a_mp4, Name_b_MKV, Name_c_mp3, Name_e_webm, Name_f_MoV,
              Name_g_avi, Name_h_flv, Name_mp4, Name_downloaded_video}

\* A directory entry: live is FALSE for an entry os.listdir returns but
\* os.path.exists rejects (a dangling symbolic link)
Entries == [name : FileNames, live : BOOLEAN]

Distinct(s) == \A i, j \in 1..Len(s) : i # j => s[i].name # s[j].name

\* Directory listings, in the order os.listdir returns them
Listings ==
    {s \in UNION {[1..n -> Entries] : n \in 0..MaxFiles} : Distinct(s)}

ArgVectors == UNION {[1..n -> ArgTokens] : n \in 0..MaxArgs}

StatusCodes == 0..MaxStatus

-----------------------------------------------------------------------------
(* Pure helpers *)

LowerMap ==
    [A |-> "a", B |-> "b", C |-> "c", D |-> "d", E |-> "e", F |-> "f",
     G |-> "g", H |-> "h", I |-> "i", J |-> "j", K |-> "k", L |-> "l",
     M |-> "m", N |-> "n", O |-> "o", P |-> "p", Q |-> "q", R |-> "r",
     S |-> "s", T |-> "t", U |-> "u", V |-> "v", W |-> "w", X |-> "x",
     Y |-> "y", Z |-> "z"]

\* str.lower()
Lower(s) == [i \in 1..Len(s) |->
                IF s[i] \in DOMAIN LowerMap THEN LowerMap[s[i]] ELSE s[i]]

\* str.endswith(suffix)
EndsWith(s, suf) ==
    /\ Len(s) >= Len(suf)
    /\ SubSeq(s, Len(s) - Len(suf) + 1, Len(s)) = suf

VideoExtensions ==
    {<<".", "m", "p", "4">>, <<".", "m", "k", "v">>,
     <<".", "w", "e", "b", "m">>, <<".", "m", "o", "v">>,
     <<".", "a", "v", "i">>, <<".", "f", "l", "v">>}

\* f.lower().endswith(('.mp4', '.mkv', '.webm', '.mov', '.avi', '.flv'))
IsVideoFile(f) == \E e \in VideoExtensions : EndsWith(Lower(f), e)

\* os.listdir(output_dir): the entry names in listing order
ListDir(dir) == [i \in 1..Len(dir) |-> dir[i].name]

VideoFilesUnfiltered(files) == files

\* The list comprehension of lines 101-107
VideoFiles(files) == SelectSeq(files, IsVideoFile)

PickLast(video_files) == video_files[Len(video_files)]

\* video_files[0]
PickEntry(video_files) == video_files[1]

\* os.path.exists(path) against the directory contents
PathExists(dir, path) ==
    /\ path # None
    /\ path[1] = DocumentsPath
    /\ \E i \in 1..Len(dir) : dir[i].name = path[2] /\ dir[i].live

\* argparse.ArgumentParser.parse_args with one positional `url`:
\* -h anywhere prints help and exits 0; otherwise exactly one positional and
\* no unknown option parses, anything else is an error with exit status 2
ParseArgs(args) ==
    IF \E i \in 1..Len(args) : args[i] = "-h" THEN "help"
    ELSE IF Len(args) = 1 /\ args[1] = "url" THEN "ok"
    ELSE "error"

Emit(msg) == out' = Append(out, msg)

-----------------------------------------------------------------------------
(* Initial state: the module is loaded (lines 6-11), nothing else has run *)

Init ==
    /\ pc = "start"
    /\ argv \in ArgVectors
    /\ yt_dlp \in BOOLEAN
    /\ homeWritable \in BOOLEAN
    /\ exitCode = NoCode
    /\ out = IF yt_dlp THEN <<>> ELSE <<"not_installed", "install_hint">>
    /\ documents_folder = NoDir
    /\ mkdirCalls = 0
    /\ dirCreated = FALSE
    /\ output_dir = NoDir
    /\ ydl = FALSE
    /\ expected_filepath_template = None
    /\ error_code = NoCode
    /\ fs = <<>>
    /\ downloaded_filepath = None
    /\ downloadCalls = 0
    /\ existsChecks = 0
    /\ listdirCalls = 0
    /\ exc = NoExc
    /\ ret = None
    /\ reported = <<>>

-----------------------------------------------------------------------------
(* Actions *)

\* sys.exit(code)
Exit(code) == pc' = "exited" /\ exitCode' = code

EntryGuardNever ==
    /\ pc = "start"
    /\ pc' = "main"
    /\ UNCHANGED <<argv, yt_dlp, homeWritable, exitCode, out,
                   documents_folder, mkdirCalls, dirCreated, output_dir, ydl,
                   expected_filepath_template, error_code, fs,
                   downloaded_filepath, downloadCalls, existsChecks,
                   listdirCalls, exc, ret, reported>>

\* lines 193-198: the __main__ guard
EntryGuard ==
    /\ pc = "start"
    /\ IF Len(argv) + 1 < 2
          THEN /\ out' = out \o <<"usage", "usage_example">>
               /\ Exit(1)
          ELSE /\ pc' = "main"
               /\ UNCHANGED <<out, exitCode>>
    /\ UNCHANGED <<argv, yt_dlp, homeWritable,
                   documents_folder, mkdirCalls, dirCreated, output_dir, ydl,
                   expected_filepath_template, error_code, fs,
                   downloaded_filepath, downloadCalls, existsChecks,
                   listdirCalls, exc, ret, reported>>

\* lines 164-170: argument parsing
MainParseArgs ==
    /\ pc = "main"
    /\ CASE ParseArgs(argv) = "help" -> Emit("argparse_help") /\ Exit(0)
         [] ParseArgs(argv) = "error" -> Emit("argparse_error") /\ Exit(2)
         [] OTHER -> pc' = "check_lib" /\ UNCHANGED <<out, exitCode>>
    /\ UNCHANGED <<argv, yt_dlp, homeWritable,
                   documents_folder, mkdirCalls, dirCreated, output_dir, ydl,
                   expected_filepath_template, error_code, fs,
                   downloaded_filepath, downloadCalls, existsChecks,
                   listdirCalls, exc, ret, reported>>

CheckLibraryProceeds ==
    /\ pc = "check_lib"
    /\ pc' = "get_docs"
    /\ UNCHANGED <<argv, yt_dlp, homeWritable, exitCode, out,
                   documents_folder, mkdirCalls, dirCreated, output_dir, ydl,
                   expected_filepath_template, error_code, fs,
                   downloaded_filepath, downloadCalls, existsChecks,
                   listdirCalls, exc, ret, reported>>

\* lines 172-174: library availability
CheckLibrary ==
    /\ pc = "check_lib"
    /\ IF ~yt_dlp
          THEN Emit("lib_unavailable_exit") /\ Exit(1)
          ELSE pc' = "get_docs" /\ UNCHANGED <<out, exitCode>>
    /\ UNCHANGED <<argv, yt_dlp, homeWritable,
                   documents_folder, mkdirCalls, dirCreated, output_dir, ydl,
                   expected_filepath_template, error_code, fs,
                   downloaded_filepath, downloadCalls, existsChecks,
                   listdirCalls, exc, ret, reported>>

\* lines 14-30 and 177-182: get_documents_folder and main's test of its result
GetDocumentsFolder ==
    /\ pc = "get_docs"
    /\ mkdirCalls' = mkdirCalls + 1
    /\ IF homeWritable
          THEN /\ dirCreated' = TRUE
               /\ documents_folder' = DocumentsPath
               /\ Emit("attempt_save")
               /\ pc' = "dl_enter"
               /\ UNCHANGED exitCode
          ELSE /\ out' = out \o <<"docs_error", "docs_hint", "docs_fail_exit">>
               /\ Exit(1)
               /\ UNCHANGED <<dirCreated, documents_folder>>
    /\ UNCHANGED <<argv, yt_dlp, homeWritable, output_dir, ydl,
                   expected_filepath_template, error_code, fs,
                   downloaded_filepath, downloadCalls, existsChecks,
                   listdirCalls, exc, ret, reported>>

\* lines 33-64 and 185: the call and the function's prologue
DownloadEnter ==
    /\ pc = "dl_enter"
    /\ output_dir' = documents_folder
    /\ IF ~yt_dlp
          THEN /\ Emit("lib_not_imported")
               /\ ret' = None
               /\ pc' = "returned"
          ELSE /\ out' = out \o <<"starting", "will_be_saved">>
               /\ pc' = "construct"
               /\ UNCHANGED ret
    /\ downloaded_filepath' = None
    /\ UNCHANGED <<argv, yt_dlp, homeWritable, exitCode,
                   documents_folder, mkdirCalls, dirCreated, ydl,
                   expected_filepath_template, error_code, fs,
                   downloadCalls, existsChecks,
                   listdirCalls, exc, reported>>

\* line 66: yt_dlp.YoutubeDL(ydl_opts), which may raise
Construct ==
    /\ pc = "construct"
    /\ \/ /\ ydl' = TRUE
          /\ pc' = "prefetch"
          /\ UNCHANGED exc
       \/ \E e \in ExcKinds :
             /\ exc' = e
             /\ pc' = "except"
             /\ UNCHANGED ydl
    /\ UNCHANGED <<argv, yt_dlp, homeWritable, exitCode, out,
                   documents_folder, mkdirCalls, dirCreated, output_dir,
                   expected_filepath_template, error_code, fs,
                   downloaded_filepath, downloadCalls, existsChecks,
                   listdirCalls, ret, reported>>

\* lines 68-77: the metadata pre-fetch and its own exception handler
Prefetch ==
    /\ pc = "prefetch"
    /\ \/ \E n \in FileNames :
             /\ expected_filepath_template' = Join(output_dir, n)
             /\ Emit("anticipated")
       \/ /\ expected_filepath_template' =
                Join(output_dir, Name_downloaded_video)
          /\ Emit("prefetch_failed")
    /\ pc' = "download"
    /\ UNCHANGED <<argv, yt_dlp, homeWritable, exitCode,
                   documents_folder, mkdirCalls, dirCreated, output_dir, ydl,
                   error_code, fs,
                   downloaded_filepath, downloadCalls, existsChecks,
                   listdirCalls, exc, ret, reported>>

\* line 80: ydl.download([url]); the library leaves the directory in some
\* state and returns a status or raises
Download ==
    /\ pc = "download"
    /\ downloadCalls' = downloadCalls + 1
    /\ fs' \in Listings
    /\ \/ /\ error_code' \in StatusCodes
          /\ pc' = "status"
          /\ UNCHANGED exc
       \/ \E e \in ExcKinds :
             /\ exc' = e
             /\ pc' = "except"
             /\ UNCHANGED error_code
    /\ UNCHANGED <<argv, yt_dlp, homeWritable, exitCode, out,
                   documents_folder, mkdirCalls, dirCreated, output_dir, ydl,
                   expected_filepath_template,
                   downloaded_filepath, existsChecks,
                   listdirCalls, ret, reported>>

CheckStatusLenient ==
    /\ pc = "status"
    /\ IF error_code <= 1
          THEN pc' = "resolve" /\ UNCHANGED <<out, ret>>
          ELSE Emit("dl_failed_code") /\ ret' = None /\ pc' = "returned"
    /\ UNCHANGED <<argv, yt_dlp, homeWritable, exitCode,
                   documents_folder, mkdirCalls, dirCreated, output_dir, ydl,
                   expected_filepath_template, error_code, fs,
                   downloaded_filepath, downloadCalls, existsChecks,
                   listdirCalls, exc, reported>>

CheckStatusRetry ==
    /\ pc = "status"
    /\ IF error_code = 0
          THEN pc' = "resolve" /\ UNCHANGED <<out, ret>>
          ELSE IF downloadCalls < 2
          THEN pc' = "download" /\ UNCHANGED <<out, ret>>
          ELSE Emit("dl_failed_code") /\ ret' = None /\ pc' = "returned"
    /\ UNCHANGED <<argv, yt_dlp, homeWritable, exitCode,
                   documents_folder, mkdirCalls, dirCreated, output_dir, ydl,
                   expected_filepath_template, error_code, fs,
                   downloaded_filepath, downloadCalls, existsChecks,
                   listdirCalls, exc, reported>>

\* lines 82 and 148-150: the test of the status
CheckStatus ==
    /\ pc = "status"
    /\ IF error_code = 0
          THEN pc' = "resolve" /\ UNCHANGED <<out, ret>>
          ELSE Emit("dl_failed_code") /\ ret' = None /\ pc' = "returned"
    /\ UNCHANGED <<argv, yt_dlp, homeWritable, exitCode,
                   documents_folder, mkdirCalls, dirCreated, output_dir, ydl,
                   expected_filepath_template, error_code, fs,
                   downloaded_filepath, downloadCalls, existsChecks,
                   listdirCalls, exc, reported>>

\* lines 94-96: trust the predicted path if it exists
ResolveExpected ==
    /\ pc = "resolve"
    /\ existsChecks' = existsChecks + 1
    /\ IF PathExists(fs, expected_filepath_template)
          THEN /\ downloaded_filepath' = expected_filepath_template
               /\ pc' = "confirm"
          ELSE /\ pc' = "scan"
               /\ UNCHANGED downloaded_filepath
    /\ UNCHANGED <<argv, yt_dlp, homeWritable, exitCode, out,
                   documents_folder, mkdirCalls, dirCreated, output_dir, ydl,
                   expected_filepath_template, error_code, fs,
                   downloadCalls, listdirCalls, exc, ret, reported>>

\* lines 100-138: the directory scan; os.listdir may raise OSError
ScanDirectory ==
    /\ pc = "scan"
    /\ listdirCalls' = listdirCalls + 1
    /\ \/ /\ exc' = "OSError"
          /\ pc' = "except"
          /\ UNCHANGED <<out, ret, downloaded_filepath>>
       \/ /\ LET files_in_output_dir == ListDir(fs)
                 video_files == VideoFiles(files_in_output_dir)
             IN  IF video_files = <<>>
                    THEN /\ Emit("no_video_files")
                         /\ ret' = None
                         /\ pc' = "returned"
                         /\ UNCHANGED downloaded_filepath
                 ELSE IF Len(video_files) = 1
                    THEN /\ downloaded_filepath' =
                               Join(output_dir, PickEntry(video_files))
                         /\ Emit("note_detected")
                         /\ pc' = "confirm"
                         /\ UNCHANGED ret
                 ELSE IF Len(video_files) > 0
                    THEN /\ out' = out \o <<"warn_multiple", "warn_consider">>
                         /\ downloaded_filepath' =
                               Join(output_dir, PickEntry(video_files))
                         /\ pc' = "confirm"
                         /\ UNCHANGED ret
                    ELSE /\ Emit("could_not_identify")
                         /\ ret' = None
                         /\ pc' = "returned"
                         /\ UNCHANGED downloaded_filepath
          /\ UNCHANGED exc
    /\ UNCHANGED <<argv, yt_dlp, homeWritable, exitCode,
                   documents_folder, mkdirCalls, dirCreated, output_dir, ydl,
                   expected_filepath_template, error_code, fs,
                   downloadCalls, existsChecks, reported>>

ConfirmPathNoCheck ==
    /\ pc = "confirm"
    /\ existsChecks' = existsChecks + 1
    /\ IF downloaded_filepath # None
          THEN /\ Emit("download_successful")
               /\ ret' = downloaded_filepath
          ELSE /\ out' = out \o <<"not_confirmed", "checked_expected">>
               /\ ret' = None
    /\ pc' = "returned"
    /\ UNCHANGED <<argv, yt_dlp, homeWritable, exitCode,
                   documents_folder, mkdirCalls, dirCreated, output_dir, ydl,
                   expected_filepath_template, error_code, fs,
                   downloaded_filepath, downloadCalls, listdirCalls, exc,
                   reported>>

ConfirmPathReturnsExpected ==
    /\ pc = "confirm"
    /\ existsChecks' = existsChecks + 1
    /\ IF downloaded_filepath # None /\ PathExists(fs, downloaded_filepath)
          THEN /\ Emit("download_successful")
               /\ ret' = expected_filepath_template
          ELSE /\ out' = out \o <<"not_confirmed", "checked_expected">>
               /\ ret' = None
    /\ pc' = "returned"
    /\ UNCHANGED <<argv, yt_dlp, homeWritable, exitCode,
                   documents_folder, mkdirCalls, dirCreated, output_dir, ydl,
                   expected_filepath_template, error_code, fs,
                   downloaded_filepath, downloadCalls, listdirCalls, exc,
                   reported>>

\* lines 140-147: the final existence check
ConfirmPath ==
    /\ pc = "confirm"
    /\ existsChecks' = existsChecks + 1
    /\ IF downloaded_filepath # None /\ PathExists(fs, downloaded_filepath)
          THEN /\ Emit("download_successful")
               /\ ret' = downloaded_filepath
          ELSE /\ out' = out \o <<"not_confirmed", "checked_expected">>
               /\ ret' = None
    /\ pc' = "returned"
    /\ UNCHANGED <<argv, yt_dlp, homeWritable, exitCode,
                   documents_folder, mkdirCalls, dirCreated, output_dir, ydl,
                   expected_filepath_template, error_code, fs,
                   downloaded_filepath, downloadCalls, listdirCalls, exc,
                   reported>>

ExceptHandlerNarrow ==
    /\ pc = "except"
    /\ IF exc = "DownloadError"
          THEN /\ Emit("download_error")
               /\ ret' = None
               /\ pc' = "returned"
               /\ UNCHANGED exitCode
          ELSE /\ Emit("uncaught_traceback")
               /\ Exit(1)
               /\ UNCHANGED ret
    /\ UNCHANGED <<argv, yt_dlp, homeWritable,
                   documents_folder, mkdirCalls, dirCreated, output_dir, ydl,
                   expected_filepath_template, error_code, fs,
                   downloaded_filepath, downloadCalls, existsChecks,
                   listdirCalls, exc, reported>>

\* lines 152-160: the handlers of the outer try; an exception neither
\* clause matches leaves the function and ends the process with status 1
ExceptHandler ==
    /\ pc = "except"
    /\ IF exc = "DownloadError"
          THEN /\ Emit("download_error")
               /\ ret' = None
               /\ pc' = "returned"
               /\ UNCHANGED exitCode
          ELSE IF IsException(exc)
          THEN /\ out' = out \o <<"unexpected_error", "traceback">>
               /\ ret' = None
               /\ pc' = "returned"
               /\ UNCHANGED exitCode
          ELSE /\ Emit("uncaught_traceback")
               /\ Exit(1)
               /\ UNCHANGED ret
    /\ UNCHANGED <<argv, yt_dlp, homeWritable,
                   documents_folder, mkdirCalls, dirCreated, output_dir, ydl,
                   expected_filepath_template, error_code, fs,
                   downloaded_filepath, downloadCalls, existsChecks,
                   listdirCalls, exc, reported>>

\* lines 187-190 and the normal end of the script: exit status 0
MainReport ==
    /\ pc = "returned"
    /\ IF ret # None
          THEN /\ Emit("process_complete")
               /\ reported' = Append(reported, ret)
          ELSE /\ Emit("failed_to_download")
               /\ UNCHANGED reported
    /\ Exit(0)
    /\ UNCHANGED <<argv, yt_dlp, homeWritable,
                   documents_folder, mkdirCalls, dirCreated, output_dir, ydl,
                   expected_filepath_template, error_code, fs,
                   downloaded_filepath, downloadCalls, existsChecks,
                   listdirCalls, exc, ret>>

Next ==
    \/ EntryGuard
    \/ MainParseArgs
    \/ CheckLibrary
    \/ GetDocumentsFolder
    \/ DownloadEnter
    \/ Construct
    \/ Prefetch
    \/ Download
    \/ CheckStatus
    \/ ResolveExpected
    \/ ScanDirectory
    \/ ConfirmPath
    \/ ExceptHandler
    \/ MainReport

Spec == Init /\ [][Next]_vars

-----------------------------------------------------------------------------
(* Vocabulary of the properties *)

Has(msg) == \E i \in 1..Len(out) : out[i] = msg

\* Positions of the directory entries with a recognized video extension
Recognized == {i \in 1..Len(fs) : IsVideoFile(fs[i].name)}

\* The predicted path names a directory entry that exists
PredictedOnDisk ==
    \E i \in 1..Len(fs) :
        /\ expected_filepath_template = <<output_dir, fs[i].name>>
        /\ fs[i].live

\* The path is the output directory joined with an entry that exists
OnDisk(path) ==
    \E i \in 1..Len(fs) : path = <<output_dir, fs[i].name>> /\ fs[i].live

\* The first recognized entry in listing order (Recognized is not empty)
FirstRecognized == CHOOSE i \in Recognized : \A j \in Recognized : i <= j

\* download_video_with_library has returned after a status-0 download
ReturnedAfterSuccess == pc = "returned" /\ error_code = 0

\* The directory scan ran to completion
ScanCompleted == listdirCalls = 1 /\ exc = NoExc

\* An exception left download_video_with_library
Escaped == Has("uncaught_traceback")

-----------------------------------------------------------------------------
(* C1 *)

\* C1: the exit code is 1 in each of the four failure cases (missing URL
\* argument, library not importable, Documents directory not creatable,
\* download failure), and a run that went through main's report exits 0 only
\* when a downloaded file path was reported.
C1_ExitCodeOnFailure ==
    pc = "exited" =>
        /\ (\/ argv = <<>>
            \/ Has("lib_unavailable_exit")
            \/ Has("docs_fail_exit")
            \/ Has("failed_to_download")) => exitCode = 1
        /\ (exitCode = 0 /\ ~Has("argparse_help")) => reported # <<>>

-----------------------------------------------------------------------------
(* C2 *)

\* C2 as stated: after a status-0 download with no recognized video file in
\* the directory, the function returns None, whatever the predicted filename.
C2_Original ==
    (ReturnedAfterSuccess /\ Recognized = {}) => ret = None

\* C2 amended: after a status-0 download with no recognized video file in the
\* directory and a predicted path that does not exist, the function returns
\* None.
C2_NoVideoFilesIsFailure ==
    (ReturnedAfterSuccess /\ Recognized = {} /\ ~PredictedOnDisk) => ret = None

C2_Witness ==
    /\ ReturnedAfterSuccess
    /\ Recognized = {}
    /\ ~PredictedOnDisk
    /\ Len(fs) = 2
    /\ fs[1].live
    /\ Has("no_video_files")
    /\ ret = None

-----------------------------------------------------------------------------
(* C3 *)

\* C3 as stated: after a status-0 download with exactly one recognized video
\* file in the directory, the returned path is that file, whatever the
\* predicted filename.
C3_Original ==
    (ReturnedAfterSuccess /\ Cardinality(Recognized) = 1) =>
        \A i \in Recognized : ret = <<output_dir, fs[i].name>>

\* C3 amended: after a status-0 download whose predicted path does not exist,
\* when the scan completes and the directory holds exactly one recognized
\* video file and that file passes the existence check, the returned path is
\* that file.
C3_SoleVideoFileIsReported ==
    (/\ ReturnedAfterSuccess
     /\ Cardinality(Recognized) = 1
     /\ ~PredictedOnDisk
     /\ ScanCompleted) =>
        \A i \in Recognized :
            fs[i].live => ret = <<output_dir, fs[i].name>>

C3_Witness ==
    /\ ReturnedAfterSuccess
    /\ Cardinality(Recognized) = 1
    /\ ~PredictedOnDisk
    /\ ScanCompleted
    /\ Len(fs) = 2
    /\ ~IsVideoFile(fs[1].name)
    /\ fs[1].live /\ fs[2].live
    /\ expected_filepath_template # <<output_dir, Name_downloaded_video>>
    /\ ret = <<output_dir, fs[2].name>>

-----------------------------------------------------------------------------
(* C4 *)

\* C4 as stated: with a writable home directory, a run whose download
\* returned status 0 ends with exactly one path reported, and that path
\* exists on disk.
C4_Original ==
    (pc = "exited" /\ homeWritable /\ error_code = 0) =>
        /\ Len(reported) = 1
        /\ OnDisk(reported[1])

\* C4 amended: with a writable home directory, a run whose download returned
\* status 0 ends with at most one path reported; a reported path is the one
\* the function returned and exists on disk; and a path is reported exactly
\* when the predicted path exists or the scan completes and the first
\* recognized entry of the listing exists.
C4_ReportedPathExists ==
    (pc = "exited" /\ homeWritable /\ error_code = 0) =>
        /\ Len(reported) <= 1
        /\ \A k \in 1..Len(reported) :
              reported[k] = ret /\ OnDisk(reported[k])
        /\ (reported # <<>>) <=>
              \/ PredictedOnDisk
              \/ /\ ScanCompleted
                 /\ Recognized # {}
                 /\ fs[FirstRecognized].live

C4_Witness ==
    /\ pc = "exited"
    /\ homeWritable
    /\ error_code = 0
    /\ Len(reported) = 1
    /\ OnDisk(reported[1])
    /\ ~PredictedOnDisk
    /\ Has("process_complete")

-----------------------------------------------------------------------------
(* C5 *)

\* C5: after a non-zero download status the function returns None, no
\* existence check and no directory scan is made, no exception leaves the
\* function, and main prints the failure message and reports no path.
C5_NonZeroStatusIsFailure ==
    (pc \in {"returned", "exited"} /\ error_code > 0) =>
        /\ ret = None
        /\ existsChecks = 0
        /\ listdirCalls = 0
        /\ exc = NoExc
        /\ ~Escaped
        /\ reported = <<>>
        /\ pc = "exited" =>
              /\ out[Len(out)] = "failed_to_download"
              /\ ~Has("process_complete")

C5_Witness ==
    /\ pc = "exited"
    /\ error_code > 0
    /\ Has("dl_failed_code")
    /\ Has("failed_to_download")
    /\ Len(fs) > 0
    /\ PredictedOnDisk

-----------------------------------------------------------------------------
(* C6 *)

\* C6: started with no arguments, the program prints the usage text and exits
\* with a non-zero code before main runs: no argument parsing, no directory
\* resolution or creation, no library call.
C6_NoArgumentsPrintsUsage ==
    argv = <<>> =>
        /\ pc \in {"start", "exited"}
        /\ pc = "exited" =>
              /\ exitCode # 0
              /\ exitCode # NoCode
              /\ Has("usage")
              /\ out[Len(out)] = "usage_example"
        /\ ~Has("argparse_help") /\ ~Has("argparse_error")
        /\ mkdirCalls = 0 /\ ~dirCreated /\ documents_folder = NoDir
        /\ ~ydl /\ downloadCalls = 0

C6_Witness ==
    /\ argv = <<>>
    /\ pc = "exited"
    /\ exitCode = 1
    /\ Has("usage")

-----------------------------------------------------------------------------
(* C7 *)

\* C7 as stated: every invocation of download_video_with_library with the
\* library available invokes the library's download exactly once.
C7_Original ==
    (pc = "returned" /\ yt_dlp) => downloadCalls = 1

\* C7 amended: the library's download is never invoked more than once; an
\* invocation in which the downloader was constructed invokes it exactly
\* once, whether the pre-fetch succeeded or raised, and one in which the
\* construction raised does not invoke it.
C7_DownloadInvokedOnce ==
    /\ downloadCalls <= 1
    /\ (pc \in {"returned", "exited"} /\ ydl) => downloadCalls = 1
    /\ ~ydl => downloadCalls = 0
    /\ (pc \in {"status", "resolve", "scan", "confirm", "except",
                "returned", "exited"} /\ Has("prefetch_failed")) =>
            downloadCalls = 1

C7_Witness ==
    /\ pc = "returned"
    /\ ydl
    /\ Has("prefetch_failed")
    /\ error_code > 0
    /\ downloadCalls = 1

-----------------------------------------------------------------------------
(* C8 *)

\* C8 as stated: after a status-0 download the result is the predicted path
\* if it exists (without a scan); otherwise the sole recognized entry of the
\* scan, or the first of several with a warning, or None when there is none.
C8_Original ==
    ReturnedAfterSuccess =>
        IF PredictedOnDisk
           THEN ret = expected_filepath_template /\ listdirCalls = 0
        ELSE IF exc # NoExc THEN ret = None
        ELSE /\ listdirCalls = 1
             /\ IF Recognized = {} THEN ret = None
                ELSE /\ ret = <<output_dir, fs[FirstRecognized].name>>
                     /\ Cardinality(Recognized) > 1 <=> Has("warn_multiple")

\* C8 amended: as stated, except that the entry chosen by the scan is the
\* result only when it passes the final existence check, and the result is
\* None otherwise.
C8_ResolutionOrder ==
    ReturnedAfterSuccess =>
        /\ IF PredictedOnDisk
              THEN ret = expected_filepath_template /\ listdirCalls = 0
           ELSE IF exc # NoExc THEN ret = None
           ELSE /\ listdirCalls = 1
                /\ IF Recognized = {} THEN ret = None
                   ELSE /\ ret = IF fs[FirstRecognized].live
                                    THEN <<output_dir, fs[FirstRecognized].name>>
                                    ELSE None
                        /\ Cardinality(Recognized) > 1 <=> Has("warn_multiple")
        /\ \/ ret = None
           \/ ret = expected_filepath_template
           \/ \E i \in Recognized : ret = <<output_dir, fs[i].name>>

C8_Witness ==
    /\ ReturnedAfterSuccess
    /\ ~PredictedOnDisk
    /\ Cardinality(Recognized) = 2
    /\ fs[1].live /\ fs[2].live
    /\ Has("warn_multiple")
    /\ ret = <<output_dir, fs[1].name>>

-----------------------------------------------------------------------------
(* C9 *)

\* C9: an exception raised while constructing the downloader, downloading or
\* scanning is caught and the function returns None; an exception raised by
\* the pre-fetch alone does not end the invocation, and the predicted path is
\* then <output_dir>/downloaded_video.
C9_NoExceptionEscapes ==
    /\ ~Escaped
    /\ pc # "except" /\ exc # NoExc =>
          /\ pc \in {"returned", "exited"}
          /\ ret = None
          /\ Has("download_error") \/ Has("unexpected_error")
          /\ pc = "exited" => exitCode = 0 /\ Has("failed_to_download")
    /\ Has("prefetch_failed") =>
          /\ expected_filepath_template = <<output_dir, Name_downloaded_video>>
          /\ pc \in {"returned", "exited"} => downloadCalls = 1
          /\ exc = NoExc => pc # "except"

C9_Witness ==
    /\ pc = "returned"
    /\ exc = "OSError"
    /\ listdirCalls = 1
    /\ Has("prefetch_failed")
    /\ Has("traceback")
    /\ ret = None

-----------------------------------------------------------------------------
(* C10 *)

\* C10: the library is checked before the directory is resolved, and the
\* directory is resolved before the download is delegated: without the
\* library the Documents directory is never created or touched, and the
\* download is only invoked with the directory get_documents_folder returned
\* after creating it.
C10_MainOrdering ==
    /\ ~yt_dlp => mkdirCalls = 0 /\ ~dirCreated /\ documents_folder = NoDir
    /\ mkdirCalls > 0 => yt_dlp /\ ParseArgs(argv) = "ok"
    /\ (ydl \/ downloadCalls > 0 \/ output_dir # NoDir) =>
          /\ mkdirCalls = 1
          /\ dirCreated
          /\ documents_folder = DocumentsPath
          /\ output_dir = documents_folder
    /\ (mkdirCalls > 0 /\ ~dirCreated) =>
          ~ydl /\ downloadCalls = 0 /\ output_dir = NoDir

C10_Witness ==
    /\ downloadCalls = 1
    /\ dirCreated
    /\ output_dir = DocumentsPath
    /\ yt_dlp

====
